---- MODULE Spec2Model ----
(***************************************************************************)
(* Model of delivery-backend/server.js: an Express application with a      *)
(* health-check middleware, GET /api/deliveries (filtered SELECT) and      *)
(* PUT /api/deliveries/:id/status (single-row UPDATE) over table entregas. *)
(*                                                                         *)
(* JavaScript values are records [t |-> type, v |-> sequence of one-char   *)
(* strings]; a string carries its characters in v, a number or boolean its *)
(* literal, the other types an empty v.                                    *)
(***************************************************************************)
EXTENDS Integers, Sequences, FiniteSets, TLC

\* ---------------------------------------------------------------- bounds
NumReq == 2            \* request slots: requests in flight at the same time
MaxStatusLen == 1      \* longest status string drawn by SpecOne
MaxNameLen == 3        \* longest delivererName string drawn by SpecOne

\* ------------------------------------------------------- JavaScript values
Undefined == [t |-> "undefined", v |-> <<>>]
Null == [t |-> "null", v |-> <<>>]
Str(s) == [t |-> "string", v |-> s]
Num(d) == [t |-> "number", v |-> <<d>>]
Bool(b) == [t |-> "boolean", v |-> <<b>>]
Arr == [t |-> "object", v |-> <<>>]

SeqsUpTo(S, n) == UNION {[1..k -> S] : k \in 0..n}

\* if (x) / !x
Truthy(x) ==
    CASE x.t = "undefined" -> FALSE
      [] x.t = "null" -> FALSE
      [] x.t = "string" -> Len(x.v) > 0
      [] x.t = "number" -> x.v # <<"0">>
      [] x.t = "boolean" -> x.v = <<"true">>
      [] OTHER -> TRUE

\* only strings have the methods toUpperCase and trim
HasStringMethods(x) == x.t = "string"

UpperChar(c) ==
    CASE c = "s" -> "S"
      [] c = "n" -> "N"
      [] c = "m" -> "M"
      [] c = "x" -> "X"
      [] OTHER -> c

\* String.prototype.toUpperCase
ToUpperCase(s) == [i \in 1..Len(s) |-> UpperChar(s[i])]

IsSpace(c) == c = " "

RECURSIVE TrimStart(_)
TrimStart(s) ==
    IF s # <<>> /\ IsSpace(Head(s)) THEN TrimStart(Tail(s)) ELSE s

RECURSIVE TrimEnd(_)
TrimEnd(s) ==
    IF s # <<>> /\ IsSpace(s[Len(s)]) THEN TrimEnd(SubSeq(s, 1, Len(s) - 1)) ELSE s

\* a trim that leaves the string as it came
NoTrim(s) == s

\* String.prototype.trim
Trim(s) == TrimEnd(TrimStart(s))

\* ------------------------------------------------------------ table entregas
\* Rows are created outside the program; the program never inserts or deletes.
InitTable ==
    (1 :> [EMISSAO |-> 1, CAIXA |-> 1, COO |-> 7, ENTREGUE |-> Str(<<"N">>), NOME |-> Null])
    @@ (2 :> [EMISSAO |-> 2, CAIXA |-> 8, COO |-> 1, ENTREGUE |-> Null, NOME |-> Null])

Digits == <<"0", "1", "2", "3", "4", "5", "6", "7", "8", "9">>

\* The number MySQL compares a bound value as; -1 stands for a value that
\* equals no stored number (no row of the table matches it).
SqlNum(x) ==
    IF x.t \in {"string", "number"} /\ Len(x.v) = 1
          /\ \E d \in 1..10 : Digits[d] = x.v[1]
    THEN (CHOOSE d \in 1..10 : Digits[d] = x.v[1]) - 1
    ELSE -1

SqlEq(n, x) == SqlNum(x) = n
SqlGe(n, x) == SqlNum(x) >= 0 /\ n >= SqlNum(x)
SqlLe(n, x) == SqlNum(x) >= 0 /\ n <= SqlNum(x)

\* the SQL text, kept as the sequence of the fragments the code concatenates
SelectBase == "SELECT * FROM entregas WHERE 1=1"
ClauseStart == " AND EMISSAO >= ?"
ClauseEnd == " AND EMISSAO <= ?"
ClausePdv == " AND (CAIXA = ? OR COO = ?)"
ClauseStatus == " AND ENTREGUE = ?"
UpdateSql == "UPDATE entregas SET ENTREGUE = ?, NOME = ? WHERE ID_ENTREGA = ?"

\* number of ? placeholders of a fragment
Placeholders(f) ==
    CASE f = ClauseStart -> 1
      [] f = ClauseEnd -> 1
      [] f = ClausePdv -> 2
      [] f = ClauseStatus -> 1
      [] f = UpdateSql -> 3
      [] OTHER -> 0

\* WHERE 1=1 AND ... evaluated on one row: frags are the fragments after the
\* base, params the values bound to their placeholders, left to right
RECURSIVE WhereHolds(_, _, _)
WhereHolds(row, frags, params) ==
    IF frags = <<>> THEN TRUE
    ELSE LET f == Head(frags)
             rest == SubSeq(params, Placeholders(f) + 1, Len(params))
             here == CASE f = ClauseStart -> SqlGe(row.EMISSAO, params[1])
                       [] f = ClauseEnd -> SqlLe(row.EMISSAO, params[1])
                       [] f = ClausePdv -> SqlEq(row.CAIXA, params[1]) \/ SqlEq(row.COO, params[2])
                       [] f = ClauseStatus -> row.ENTREGUE = params[1]
                       [] OTHER -> FALSE
         IN here /\ WhereHolds(row, Tail(frags), rest)

\* the rows a SELECT returns: [rows] of pool.execute(query, params)
SelectRows(tbl, sql, params) ==
    {[ID_ENTREGA |-> i, row |-> tbl[i]] :
        i \in {j \in DOMAIN tbl : WhereHolds(tbl[j], Tail(sql), params)}}

\* an UPDATE whose WHERE clause was left out: every row is written
ApplyUpdateAllRows(tbl, params) ==
    [i \in DOMAIN tbl |-> [tbl[i] EXCEPT !.ENTREGUE = params[1], !.NOME = params[2]]]

\* an UPDATE that writes the flag and leaves the name for a second statement
ApplyUpdateFlagOnly(tbl, params) ==
    [i \in DOMAIN tbl |->
        IF SqlEq(i, params[3]) THEN [tbl[i] EXCEPT !.ENTREGUE = params[1]] ELSE tbl[i]]

\* UPDATE entregas SET ENTREGUE = ?, NOME = ? WHERE ID_ENTREGA = ? : one statement
ApplyUpdate(tbl, params) ==
    [i \in DOMAIN tbl |->
        IF SqlEq(i, params[3])
        THEN [tbl[i] EXCEPT !.ENTREGUE = params[1], !.NOME = params[2]]
        ELSE tbl[i]]

\* affectedRows counting only the rows whose content the statement changed
ChangedRows(tbl, params) ==
    Cardinality({i \in DOMAIN tbl :
        SqlEq(i, params[3]) /\ (tbl[i].ENTREGUE # params[1] \/ tbl[i].NOME # params[2])})

\* result.affectedRows: mysql2 connects with FOUND_ROWS, so it counts the rows
\* the WHERE clause matched, changed or not
AffectedRows(tbl, params) ==
    Cardinality({i \in DOMAIN tbl : SqlEq(i, params[3])})

\* ------------------------------------------------------------------- state
VARIABLES
    table,      \* table entregas: ID_ENTREGA -> row
    req,        \* slot -> the request in that slot and how far it has got
    lastWrite,  \* per row, the request payload of the last UPDATE executed on it (history)
    lastUpd     \* the last UPDATE statement executed, and the rows it left (history)

vars == <<table, req, lastWrite, lastUpd>>

Slots == 1..NumReq

NoWrite == [w |-> FALSE, status |-> Undefined, delivererName |-> Undefined]
NoUpd == [set |-> FALSE, key |-> <<>>, after |-> <<>>, twice |-> FALSE, prev |-> <<>>, affected |-> 0]

\* an empty slot
Idle ==
    [method |-> "NONE", startDate |-> Undefined, endDate |-> Undefined, pdv |-> Undefined,
     id |-> <<>>, parsed |-> FALSE, status |-> Undefined, delivererName |-> Undefined,
     pc |-> "idle", conn |-> "none", handler |-> FALSE,
     sql |-> <<>>, params |-> <<>>, executed |-> 0,
     rows |-> {}, obs |-> <<>>, affected |-> 0,
     resp |-> 0, nresp |-> 0, msg |-> "none", escaped |-> FALSE]

\* GET /api/deliveries?startDate=..&endDate=..&pdv=..&status=.. as it enters the application
GetRequest(sd, ed, pv, st) ==
    [Idle EXCEPT !.method = "GET", !.startDate = sd, !.endDate = ed, !.pdv = pv,
                 !.status = st, !.pc = "mw"]

\* PUT /api/deliveries/:id/status; parsed tells whether express.json() parsed a body
PutRequest(id, parsed, st, nm) ==
    [Idle EXCEPT !.method = "PUT", !.id = id, !.parsed = parsed,
                 !.status = st, !.delivererName = nm, !.pc = "mw"]

\* ----------------------------------------------- the handlers' synchronous part
Respond(code, msg) == [kind |-> "respond", code |-> code, msg |-> msg, sql |-> <<>>, params |-> <<>>]
Throw == [kind |-> "throw", code |-> 0, msg |-> "none", sql |-> <<>>, params |-> <<>>]
Execute(sql, params) == [kind |-> "execute", code |-> 0, msg |-> "none", sql |-> sql, params |-> params]

\* a clause added with only the first of its values pushed
AddClauseOnePush(q, x, clause, pushed) ==
    IF Truthy(x) THEN [sql |-> Append(q.sql, clause), params |-> Append(q.params, pushed[1])]
    ELSE q

\* if (x) { query += clause; params.push(...) }
AddClause(q, x, clause, pushed) ==
    IF Truthy(x) THEN [sql |-> Append(q.sql, clause), params |-> q.params \o pushed] ELSE q

\* a GET handler that drops a status it does not recognise instead of answering 400
GetHandlerLenient(rq) ==
    LET up == ToUpperCase(rq.status.v)
        ok == Truthy(rq.status) /\ HasStringMethods(rq.status) /\ up \in {<<"S">>, <<"N">>}
    IN  IF Truthy(rq.status) /\ ~HasStringMethods(rq.status) THEN Throw
        ELSE Execute(<<SelectBase>>
                       \o (IF Truthy(rq.startDate) THEN <<ClauseStart>> ELSE <<>>)
                       \o (IF Truthy(rq.endDate) THEN <<ClauseEnd>> ELSE <<>>)
                       \o (IF Truthy(rq.pdv) THEN <<ClausePdv>> ELSE <<>>)
                       \o (IF ok THEN <<ClauseStatus>> ELSE <<>>),
                     (IF Truthy(rq.startDate) THEN <<rq.startDate>> ELSE <<>>)
                       \o (IF Truthy(rq.endDate) THEN <<rq.endDate>> ELSE <<>>)
                       \o (IF Truthy(rq.pdv) THEN <<rq.pdv, rq.pdv>> ELSE <<>>)
                       \o (IF ok THEN <<Str(up)>> ELSE <<>>))

\* app.get('/api/deliveries'), up to its first await
GetHandler(rq) ==
    LET q0 == [sql |-> <<SelectBase>>, params |-> <<>>]
        q1 == AddClause(q0, rq.startDate, ClauseStart, <<rq.startDate>>)
        q2 == AddClause(q1, rq.endDate, ClauseEnd, <<rq.endDate>>)
        q3 == AddClause(q2, rq.pdv, ClausePdv, <<rq.pdv, rq.pdv>>)
    IN  IF Truthy(rq.status)
        THEN IF ~HasStringMethods(rq.status) THEN Throw
             ELSE IF ToUpperCase(rq.status.v) = <<"S">> \/ ToUpperCase(rq.status.v) = <<"N">>
                  THEN Execute(Append(q3.sql, ClauseStatus),
                               Append(q3.params, Str(ToUpperCase(rq.status.v))))
                  ELSE Respond(400, "status")
        ELSE Execute(q3.sql, q3.params)

\* app.put('/api/deliveries/:id/status'), up to its first await. body is what
\* req.body holds when no body was parsed: "object" ({}) or "undefined",
\* depending on the express release the application is installed with.
PutHandler(rq, body) ==
    IF ~rq.parsed /\ body = "undefined" THEN Throw
    ELSE IF ~Truthy(rq.status) THEN Respond(400, "status")
    ELSE IF ~HasStringMethods(rq.status) THEN Throw
    ELSE IF ToUpperCase(rq.status.v) # <<"S">> /\ ToUpperCase(rq.status.v) # <<"N">>
         THEN Respond(400, "status")
    ELSE IF ~Truthy(rq.delivererName) \/ rq.delivererName.t # "string"
              \/ Trim(rq.delivererName.v) = <<>>
         THEN Respond(400, "name")
    ELSE Execute(<<UpdateSql>>,
                 <<Str(ToUpperCase(rq.status.v)), Str(Trim(rq.delivererName.v)), Str(rq.id)>>)

\* a middleware that goes on without releasing its connection
NoRelease(conn) == conn

\* connection.release() in the middleware
Release(conn) == "released"

\* What the framework does with an exception that leaves an async handler:
\* express 4 leaves the rejection unhandled (no response is sent), express 5
\* passes it to the default error handler (500).
EscapeResponses == {0, 500}

\* the request after the handler's synchronous part ended with outcome o
AfterHandler(rq, o, fw) ==
    LET h == [rq EXCEPT !.conn = Release("held"), !.handler = TRUE]
    IN  CASE o.kind = "respond" ->
               [h EXCEPT !.pc = "done", !.resp = o.code, !.nresp = 1, !.msg = o.msg]
          [] o.kind = "throw" ->
               [h EXCEPT !.pc = "done", !.escaped = TRUE, !.resp = fw,
                         !.nresp = IF fw = 0 THEN 0 ELSE 1,
                         !.msg = IF fw = 0 THEN "none" ELSE "framework"]
          [] OTHER ->
               [h EXCEPT !.pc = "exec", !.sql = o.sql, !.params = o.params, !.executed = 1]

\* ------------------------------------------------------------------ inputs
StatusChars == {"s", "S", "n", "N", "x"}
NameChars == {" ", "M"}
PathIds == {<<"1">>, <<"2">>, <<"9">>}

\* values express hands over for a query parameter: absent, a string, or an
\* array when the parameter is repeated
QueryValues(strings) == {Undefined, Arr} \cup {Str(s) : s \in strings}
\* values of a member of a JSON body
JsonValues(strings) ==
    {Undefined, Null, Num("0"), Num("1"), Bool("true"), Arr} \cup {Str(s) : s \in strings}

OneGet ==
    {GetRequest(sd, ed, pv, st) :
        sd \in QueryValues({<<>>, <<"2">>}), ed \in QueryValues({<<>>, <<"1">>}),
        pv \in QueryValues({<<>>, <<"1">>}),
        st \in QueryValues(SeqsUpTo(StatusChars, MaxStatusLen))}

OnePut ==
    {PutRequest(id, TRUE, st, nm) :
        id \in PathIds, st \in JsonValues(SeqsUpTo(StatusChars, MaxStatusLen)),
        nm \in JsonValues(SeqsUpTo(NameChars, MaxNameLen))}
    \cup {PutRequest(id, FALSE, Undefined, Undefined) : id \in PathIds}

\* the requests the concurrent specification draws from
SomeGet ==
    {GetRequest(Undefined, Undefined, Undefined, Undefined)}

SomePut ==
    {PutRequest(<<"1">>, TRUE, st, nm) :
        st \in {Str(<<"s">>), Str(<<"N">>)},
        nm \in {Str(<<" ", "M", " ">>), Str(<<"M", " ", "M">>)}}
    \cup {PutRequest(<<"1">>, TRUE, Num("1"), Str(<<" ">>))}

\* ----------------------------------------------------------------- actions
Init ==
    /\ table = InitTable
    /\ req = [r \in Slots |-> Idle]
    /\ lastWrite = [i \in DOMAIN InitTable |-> NoWrite]
    /\ lastUpd = NoUpd

\* a request enters the application and the middleware awaits pool.getConnection()
Receive(r) ==
    /\ req[r].pc = "idle"
    /\ \E rq \in SomeGet \cup SomePut : req' = [req EXCEPT ![r] = rq]
    /\ UNCHANGED <<table, lastWrite, lastUpd>>

\* middleware, catch branch: pool.getConnection() rejects
MwFail(r) ==
    /\ req[r].pc = "mw"
    /\ req' = [req EXCEPT ![r].pc = "done", ![r].conn = "failed",
                          ![r].resp = 500, ![r].nresp = 1, ![r].msg = "conn"]
    /\ UNCHANGED <<table, lastWrite, lastUpd>>

\* middleware, try branch, then the GET handler up to its first await
MwNextGet(r) ==
    /\ req[r].pc = "mw" /\ req[r].method = "GET"
    /\ \E fw \in EscapeResponses :
          req' = [req EXCEPT ![r] = AfterHandler(req[r], GetHandler(req[r]), fw)]
    /\ UNCHANGED <<table, lastWrite, lastUpd>>

\* middleware, try branch, then the PUT handler up to its first await
MwNextPut(r) ==
    /\ req[r].pc = "mw" /\ req[r].method = "PUT"
    /\ \E fw \in EscapeResponses, body \in {"object", "undefined"} :
          req' = [req EXCEPT ![r] = AfterHandler(req[r], PutHandler(req[r], body), fw)]
    /\ UNCHANGED <<table, lastWrite, lastUpd>>

\* the request once the GET handler has sent res.json(rows)
GetOk(rq, rows, seen) ==
    [rq EXCEPT !.pc = "done", !.rows = rows, !.obs = seen,
               !.resp = 200, !.nresp = 1, !.msg = "rows"]

\* a PUT handler that does not look at affectedRows
PutOkAlways(rq, affected) ==
    [rq EXCEPT !.pc = "done", !.affected = affected, !.nresp = 1,
               !.resp = 200, !.msg = "updated"]

\* the request once the PUT handler has answered an executed UPDATE
PutOk(rq, affected) ==
    [rq EXCEPT !.pc = "done", !.affected = affected, !.nresp = 1,
               !.resp = IF affected = 0 THEN 404 ELSE 200,
               !.msg = IF affected = 0 THEN "notfound" ELSE "updated"]

\* the request once a catch branch of a handler has answered
DbError(rq) == [rq EXCEPT !.pc = "done", !.resp = 500, !.nresp = 1, !.msg = "db"]

\* the database executes the SELECT; the GET handler resumes with its rows
GetSelect(r) ==
    /\ req[r].pc = "exec" /\ req[r].method = "GET"
    /\ req' = [req EXCEPT ![r] =
                  GetOk(req[r], SelectRows(table, req[r].sql, req[r].params), lastWrite)]
    /\ UNCHANGED <<table, lastWrite, lastUpd>>

\* the database executes the UPDATE as one statement; the PUT handler resumes
PutUpdate(r) ==
    LET p == req[r].params
        hit == {i \in DOMAIN table : SqlEq(i, p[3])}
        after == ApplyUpdate(table, p)
        key == <<req[r].id, req[r].status, req[r].delivererName>>
        left == [i \in hit |-> after[i]]
        again == lastUpd.set /\ lastUpd.key = key
    IN  /\ req[r].pc = "exec" /\ req[r].method = "PUT"
        /\ table' = after
        /\ lastWrite' = [i \in DOMAIN table |->
                            IF i \in hit
                            THEN [w |-> TRUE, status |-> req[r].status,
                                  delivererName |-> req[r].delivererName]
                            ELSE lastWrite[i]]
        /\ lastUpd' = IF hit = {} THEN NoUpd
                      ELSE [set |-> TRUE, key |-> key, after |-> left, twice |-> again,
                            prev |-> IF again THEN lastUpd.after ELSE <<>>,
                            affected |-> AffectedRows(table, p)]
        /\ req' = [req EXCEPT ![r] = PutOk(req[r], AffectedRows(table, p))]

\* pool.execute rejects in the GET handler: the catch branch answers
GetDbError(r) ==
    /\ req[r].pc = "exec" /\ req[r].method = "GET"
    /\ req' = [req EXCEPT ![r] = DbError(req[r])]
    /\ UNCHANGED <<table, lastWrite, lastUpd>>

\* pool.execute rejects in the PUT handler: the statement has no effect
PutDbError(r) ==
    /\ req[r].pc = "exec" /\ req[r].method = "PUT"
    /\ req' = [req EXCEPT ![r] = DbError(req[r])]
    /\ UNCHANGED <<table, lastWrite, lastUpd>>

\* the exchange is over; the slot is free for the next request
Recycle(r) ==
    /\ req[r].pc = "done"
    /\ req' = [req EXCEPT ![r] = Idle]
    /\ UNCHANGED <<table, lastWrite, lastUpd>>

Step(r) ==
    \/ MwFail(r) \/ MwNextGet(r) \/ MwNextPut(r)
    \/ GetSelect(r) \/ GetDbError(r)
    \/ PutUpdate(r) \/ PutDbError(r)

Next == \E r \in Slots : Receive(r) \/ Step(r) \/ Recycle(r)

\* any number of requests, up to NumReq of them in flight together
Spec == Init /\ [][Next]_vars

\* one request, of any shape, handled from arrival to response
InitOne ==
    /\ table = InitTable
    /\ req \in {[r \in Slots |-> IF r = 1 THEN rq ELSE Idle] : rq \in OneGet \cup OnePut}
    /\ lastWrite = [i \in DOMAIN InitTable |-> NoWrite]
    /\ lastUpd = NoUpd

NextOne == \E r \in Slots : Step(r)

SpecOne == InitOne /\ [][NextOne]_vars

\* ------------------------------------------------------------------ claims
Present(x) == x # Undefined
PresentNonEmpty(x) == x # Undefined /\ x # Str(<<>>)
UpperIsSN(x) == x.t = "string" /\ ToUpperCase(x.v) \in {<<"S">>, <<"N">>}
HasNonSpace(s) == \E k \in 1..Len(s) : s[k] # " "
RowPair(row) == [ENTREGUE |-> row.ENTREGUE, NOME |-> row.NOME]
\* the statement of the request was executed by the database and answered
Answered(rq) == rq.pc = "done" /\ rq.msg \in {"rows", "updated", "notfound"}
GetReached(rq) == rq.method = "GET" /\ rq.handler
PutReached(rq) == rq.method = "PUT" /\ rq.handler

\* the WHERE text and the bound values the claim C1 describes, P telling
\* which parameters count as present
ExpectedSql(rq, P(_)) ==
    <<SelectBase>>
      \o (IF P(rq.startDate) THEN <<" AND EMISSAO >= ?">> ELSE <<>>)
      \o (IF P(rq.endDate) THEN <<" AND EMISSAO <= ?">> ELSE <<>>)
      \o (IF P(rq.pdv) THEN <<" AND (CAIXA = ? OR COO = ?)">> ELSE <<>>)
      \o (IF P(rq.status) THEN <<" AND ENTREGUE = ?">> ELSE <<>>)
ExpectedParams(rq, P(_)) ==
    (IF P(rq.startDate) THEN <<rq.startDate>> ELSE <<>>)
      \o (IF P(rq.endDate) THEN <<rq.endDate>> ELSE <<>>)
      \o (IF P(rq.pdv) THEN <<rq.pdv, rq.pdv>> ELSE <<>>)
      \o (IF P(rq.status) THEN <<Str(ToUpperCase(rq.status.v))>> ELSE <<>>)
BuiltAsExpected(rq, P(_)) ==
    /\ rq.executed = 1
    /\ rq.sql = ExpectedSql(rq, P)
    /\ rq.params = ExpectedParams(rq, P)

\* C1, as stated: for every combination of present and absent query
\* parameters (status valid when present) the GET handler builds 1=1 AND-ed
\* with exactly the clauses of the present parameters, in the fixed order, and
\* binds one value per placeholder in the same order.
C1_AsStated ==
    \A r \in Slots :
        GetReached(req[r]) /\ (Present(req[r].status) => UpperIsSN(req[r].status))
            => BuiltAsExpected(req[r], Present)

\* C1, amended: the same, a parameter counting as present when it is there
\* with a non-empty value (an empty value adds no clause and binds nothing).
C1_Amended ==
    \A r \in Slots :
        GetReached(req[r]) /\ (Present(req[r].status) => UpperIsSN(req[r].status))
            => BuiltAsExpected(req[r], PresentNonEmpty)

C1_Witness ==
    \E r \in Slots :
        /\ GetReached(req[r]) /\ req[r].pc = "exec"
        /\ req[r].startDate = Str(<<"2">>) /\ req[r].endDate = Str(<<>>)
        /\ req[r].pdv = Str(<<"1">>) /\ req[r].status = Str(<<"n">>)
        /\ Len(req[r].sql) = 4 /\ Len(req[r].params) = 4

\* C2, as stated: a GET that reaches the handler with a status value whose
\* uppercased form is not exactly S or N is answered 400 and no SELECT is
\* executed for it.
C2_AsStated ==
    \A r \in Slots :
        GetReached(req[r]) /\ req[r].status.t = "string" /\ ~UpperIsSN(req[r].status)
            => req[r].pc = "done" /\ req[r].resp = 400 /\ req[r].executed = 0

\* C2, amended: the same for a non-empty status value; an empty status value
\* is treated as no status filter.
C2_Amended ==
    \A r \in Slots :
        GetReached(req[r]) /\ req[r].status.t = "string" /\ req[r].status.v # <<>>
                /\ ~UpperIsSN(req[r].status)
            => /\ req[r].pc = "done" /\ req[r].resp = 400 /\ req[r].nresp = 1
               /\ req[r].msg = "status" /\ req[r].executed = 0 /\ req[r].rows = {}

C2_Witness ==
    \E r \in Slots :
        GetReached(req[r]) /\ req[r].status = Str(<<"x">>) /\ req[r].pdv = Str(<<"1">>)
            /\ req[r].resp = 400

StatusBad(rq) == ~Present(rq.status) \/ ~UpperIsSN(rq.status)
NameBad(rq) ==
    ~Present(rq.delivererName) \/ rq.delivererName.t # "string"
        \/ ~HasNonSpace(rq.delivererName.v)
Rejected(rq, msg) ==
    rq.pc = "done" /\ rq.resp = 400 /\ rq.msg = msg /\ rq.executed = 0

\* C3: in the PUT handler the first failing rule decides: a missing or
\* invalid status gives 400 with the status message whatever delivererName
\* is; otherwise a missing, non-text or blank delivererName gives 400 with
\* the name message; no UPDATE is executed and no row changes. Stated for
\* the requests that carry a JSON body.
C3_AsStated ==
    \A r \in Slots :
        PutReached(req[r]) /\ req[r].parsed =>
            /\ StatusBad(req[r]) => Rejected(req[r], "status") /\ table = InitTable
            /\ ~StatusBad(req[r]) /\ NameBad(req[r])
                  => Rejected(req[r], "name") /\ table = InitTable

ValidUpdate(rq) == PutReached(rq) /\ ~StatusBad(rq) /\ ~NameBad(rq)
\* the rows whose ID_ENTREGA the path id names
RowsOf(id) == {i \in DOMAIN InitTable : id = <<Digits[i + 1]>>}

\* C4: a valid update whose id names an existing row and whose statement
\* succeeds is answered 200 and leaves that row with the uppercased status
\* and the trimmed name, every other column and every other row unchanged.
C4_UpdateStored ==
    \A r \in Slots : \A i \in RowsOf(req[r].id) :
        ValidUpdate(req[r]) /\ Answered(req[r]) =>
            /\ req[r].resp = 200 /\ req[r].nresp = 1
            /\ table = [InitTable EXCEPT
                          ![i] = [@ EXCEPT !.ENTREGUE = Str(ToUpperCase(req[r].status.v)),
                                           !.NOME = Str(TrimEnd(TrimStart(req[r].delivererName.v)))]]

C4_Witness ==
    \E r \in Slots :
        /\ ValidUpdate(req[r]) /\ Answered(req[r]) /\ req[r].id = <<"2">>
        /\ req[r].status = Str(<<"s">>) /\ req[r].delivererName = Str(<<" ", "M", " ">>)
        /\ table[2].ENTREGUE = Str(<<"S">>) /\ table[2].NOME = Str(<<"M">>)

\* C5: a valid update whose id names no row is answered 404 once its
\* statement has run (zero affected rows), and the table is as it was.
C5_NotFound ==
    \A r \in Slots :
        ValidUpdate(req[r]) /\ RowsOf(req[r].id) = {} =>
            /\ table = InitTable
            /\ Answered(req[r]) => req[r].resp = 404 /\ req[r].nresp = 1 /\ req[r].affected = 0

C5_Witness ==
    \E r \in Slots :
        ValidUpdate(req[r]) /\ req[r].id = <<"9">> /\ Answered(req[r]) /\ req[r].resp = 404

\* C6: when the middleware fails to get a connection the request, GET or
\* PUT, is answered 500, its handler is never invoked, no statement is
\* executed for it and the table is unchanged; when it gets one, the
\* connection is released before the handler runs.
C6_HealthCheck ==
    \A r \in Slots :
        /\ req[r].conn = "failed" =>
              /\ req[r].pc = "done" /\ req[r].resp = 500 /\ req[r].nresp = 1
              /\ ~req[r].handler /\ req[r].executed = 0 /\ req[r].sql = <<>>
              /\ table = InitTable
        /\ req[r].handler => req[r].conn = "released"
        /\ req[r].pc \in {"exec", "done"} => req[r].conn \in {"failed", "released"}

C6_Witness ==
    \E r \in Slots :
        /\ req[r].conn = "failed" /\ req[r].method = "PUT" /\ req[r].resp = 500
        /\ req[r].status = Str(<<"S">>) /\ req[r].delivererName = Str(<<"M">>)

\* C7: the same valid update of an existing row applied twice in succession
\* is answered 200 both times, and the row after the second equals the row
\* after the first.
C7_Idempotent ==
    lastUpd.twice =>
        /\ lastUpd.after = lastUpd.prev
        /\ lastUpd.affected >= 1
        /\ \A r \in Slots :
              /\ req[r].method = "PUT" /\ Answered(req[r])
              /\ <<req[r].id, req[r].status, req[r].delivererName>> = lastUpd.key
              => req[r].resp = 200

C7_Witness ==
    /\ lastUpd.twice
    /\ \E r \in Slots :
          /\ Answered(req[r]) /\ req[r].resp = 200
          /\ <<req[r].id, req[r].status, req[r].delivererName>> = lastUpd.key

\* C8: after any sequence and interleaving of requests, a row written
\* through the update path holds a flag that is exactly S or exactly N and a
\* deliverer name that is a non-empty string without leading or trailing
\* whitespace.
C8_StoredValues ==
    \A i \in DOMAIN table :
        lastWrite[i].w =>
            /\ table[i].ENTREGUE \in {Str(<<"S">>), Str(<<"N">>)}
            /\ table[i].NOME.t = "string"
            /\ Len(table[i].NOME.v) > 0
            /\ table[i].NOME.v[1] # " "
            /\ table[i].NOME.v[Len(table[i].NOME.v)] # " "

C8_Witness ==
    \E i \in DOMAIN table :
        /\ lastWrite[i].w /\ lastWrite[i].status = Str(<<"s">>)
        /\ table[i].ENTREGUE = Str(<<"S">>) /\ table[i].NOME = Str(<<"M">>)

\* C9: whatever the input shape and the database outcome, a handler ends by
\* sending exactly one response, with status 200, 400, 404 or 500, and no
\* exception leaves it.
C9_AsStated ==
    \A r \in Slots :
        req[r].pc = "done" =>
            ~req[r].escaped /\ req[r].nresp = 1 /\ req[r].resp \in {200, 400, 404, 500}

\* the (flag, name) pair a row holds when w is the last payload written to it
PairAfter(i, w) ==
    IF w.w THEN [ENTREGUE |-> Str(ToUpperCase(w.status.v)),
                 NOME |-> Str(TrimEnd(TrimStart(w.delivererName.v)))]
    ELSE RowPair(InitTable[i])

\* C10: under any interleaving the (flag, name) pair of a row is its initial
\* value or the (uppercased status, trimmed name) of one accepted update,
\* the one executed last on it; no read observes the flag of one update with
\* the name of another.
C10_NoPartialWrite ==
    /\ \A i \in DOMAIN table : RowPair(table[i]) = PairAfter(i, lastWrite[i])
    /\ \A r \in Slots : \A x \in req[r].rows :
          RowPair(x.row) = PairAfter(x.ID_ENTREGA, req[r].obs[x.ID_ENTREGA])

C10_Witness ==
    \E r \in Slots, u \in Slots :
        /\ req[r].msg = "rows"
        /\ \E x \in req[r].rows :
              /\ req[r].obs[x.ID_ENTREGA].w
              /\ RowPair(x.row) # RowPair(table[x.ID_ENTREGA])
        /\ req[u].method = "PUT" /\ req[u].pc = "exec"

====
